---- MODULE Spec2Model ----
(***************************************************************************)
(* Model of the container layer of the FFIEC data-transformation project:  *)
(*   src/src/containers/session.py  SessionContainer (engines, factories,   *)
(*                                  scoped session generators)              *)
(*   src/src/containers/config.py   ConfigContainer (file-dict caches,      *)
(*                                  category accessors)                     *)
(* Four specifications share the variables:                                 *)
(*   Spec       sequential calls of the SessionContainer methods;           *)
(*   SpecScope  the scoped session generators and their consumers;          *)
(*   SpecRace   threads running get_postgres_engine /                       *)
(*              get_postgres_async_engine statement by statement;           *)
(*   SpecConfig ConfigContainer instances over a fixed file system.         *)
(***************************************************************************)
EXTENDS Naturals, Sequences, FiniteSets, TLC

VARIABLES
    postgres_engine,        \* SessionContainer._postgres_engine (class attribute)
    postgres_async_engine,  \* SessionContainer._postgres_async_engine
    engines,                \* every engine object constructed so far, by identity
    last,                   \* the last SessionContainer call and what it returned
    syncGets,               \* instances get_postgres_engine has returned
    asyncGets,              \* instances get_postgres_async_engine has returned
    gens,                   \* the scoped session generators, by invocation
    callers,                \* SpecRace: the threads inside a get_* accessor
    fs,                     \* SpecConfig: the files each directory holds
    class_attrs,            \* ConfigContainer's class attributes
    attrs,                  \* the __dict__ of each ConfigContainer instance
    resolved,               \* per instance and cache, the directories handed to
                            \* ConfigHandler.create_file_dict
    cfgLast                 \* the last ConfigContainer call and what it returned

configVars == <<fs, class_attrs, attrs, resolved, cfgLast>>
vars == <<postgres_engine, postgres_async_engine, engines, last,
          syncGets, asyncGets, gens, callers, configVars>>

-----------------------------------------------------------------------------
(* Bounds *)

\* engines constructed in one run
MaxEngines == 4
\* generator invocations in one run
MaxGens == 2
\* threads that call a get_* accessor concurrently
MaxCallers == 2
\* ConfigContainer instances in one run
MaxContainers == 2

-----------------------------------------------------------------------------
(* SessionContainer: class attributes and the library calls it makes *)

\* Python's None, the initial value of both singleton slots.
None == 0

\* connection.POSTGRES_CONNECTION, the one URL every engine is bound to.
postgres_connection == "POSTGRES_CONNECTION"

\* sqlalchemy.create_engine(url=..., echo=False): a new Engine object.
create_engine(url, echo) == [kind |-> "Engine", url |-> url, echo |-> echo]

\* sqlalchemy.ext.asyncio.create_async_engine(url, echo=True): a new AsyncEngine.
create_async_engine(url, echo) == [kind |-> "AsyncEngine", url |-> url, echo |-> echo]

\* The identity a newly constructed object gets: distinct from every live one.
NewId == Len(engines) + 1

\* async_sessionmaker(bind=..., autoflush=False, expire_on_commit=False)
async_sessionmaker(bind, autoflush, expire_on_commit) ==
    [bind |-> bind, autoflush |-> autoflush, expire_on_commit |-> expire_on_commit]

CanCreate == Len(engines) < MaxEngines

Returned(op, e) == [op |-> op, engine |-> e]

-----------------------------------------------------------------------------
(* Engine accessors.  Each method is an operator over the class state; the   *)
(* engine it returns is given by the matching ..._result operator, read in   *)
(* the same step.  The Do_ actions are a caller invoking the method.         *)

SlotsUnchanged == UNCHANGED <<postgres_engine, postgres_async_engine, syncGets, asyncGets>>

\* A create_postgres_engine that caches: it fills and returns the singleton slot.
create_postgres_engine_Caching ==
    /\ CanCreate
    /\ engines' = Append(engines, create_engine(postgres_connection, FALSE))
    /\ postgres_engine' = IF postgres_engine = None THEN NewId ELSE postgres_engine
    /\ UNCHANGED <<postgres_async_engine, syncGets, asyncGets>>

\* create_postgres_engine(): return create_engine(url=cls._postgres_connection, echo=False)
create_postgres_engine ==
    /\ CanCreate
    /\ engines' = Append(engines, create_engine(postgres_connection, FALSE))
    /\ SlotsUnchanged

create_postgres_engine_result == Len(engines')

\* create_postgres_async_engine(): return create_async_engine(cls._postgres_connection, echo=True)
create_postgres_async_engine ==
    /\ CanCreate
    /\ engines' = Append(engines, create_async_engine(postgres_connection, TRUE))
    /\ SlotsUnchanged

create_postgres_async_engine_result == Len(engines')

\* A get_postgres_engine without the `is None` test: every call replaces the slot.
get_postgres_engine_NoCheck ==
    /\ CanCreate
    /\ engines' = Append(engines, create_engine(postgres_connection, FALSE))
    /\ postgres_engine' = NewId
    /\ syncGets' = syncGets \cup {postgres_engine'}
    /\ UNCHANGED <<postgres_async_engine, asyncGets>>

\* get_postgres_engine(): if cls._postgres_engine is None: cls._postgres_engine = create_engine(...)
\*                        return cls._postgres_engine
get_postgres_engine ==
    /\ IF postgres_engine = None
       THEN /\ CanCreate
            /\ engines' = Append(engines, create_engine(postgres_connection, FALSE))
            /\ postgres_engine' = NewId
       ELSE UNCHANGED <<engines, postgres_engine>>
    /\ syncGets' = syncGets \cup {postgres_engine'}
    /\ UNCHANGED <<postgres_async_engine, asyncGets>>

get_postgres_engine_result == postgres_engine'

\* get_postgres_async_engine(), the same over the async slot
get_postgres_async_engine ==
    /\ IF postgres_async_engine = None
       THEN /\ CanCreate
            /\ engines' = Append(engines, create_async_engine(postgres_connection, TRUE))
            /\ postgres_async_engine' = NewId
       ELSE UNCHANGED <<engines, postgres_async_engine>>
    /\ asyncGets' = asyncGets \cup {postgres_async_engine'}
    /\ UNCHANGED <<postgres_engine, syncGets>>

get_postgres_async_engine_result == postgres_async_engine'

\* create_postgres_async_session_factory(): async_sessionmaker(bind=cls.create_postgres_async_engine(), ...)
create_postgres_async_session_factory == create_postgres_async_engine

create_postgres_async_session_factory_result ==
    async_sessionmaker(create_postgres_async_engine_result, FALSE, FALSE)

\* get_postgres_async_session_factory(): async_sessionmaker(bind=cls.get_postgres_async_engine(), ...)
get_postgres_async_session_factory == get_postgres_async_engine

get_postgres_async_session_factory_result ==
    async_sessionmaker(get_postgres_async_engine_result, FALSE, FALSE)

Do_create_postgres_engine ==
    /\ create_postgres_engine
    /\ last' = Returned("create_postgres_engine", create_postgres_engine_result)
    /\ UNCHANGED <<gens, callers, configVars>>

Do_create_postgres_async_engine ==
    /\ create_postgres_async_engine
    /\ last' = Returned("create_postgres_async_engine", create_postgres_async_engine_result)
    /\ UNCHANGED <<gens, callers, configVars>>

Do_get_postgres_engine ==
    /\ get_postgres_engine
    /\ last' = Returned("get_postgres_engine", get_postgres_engine_result)
    /\ UNCHANGED <<gens, callers, configVars>>

Do_get_postgres_async_engine ==
    /\ get_postgres_async_engine
    /\ last' = Returned("get_postgres_async_engine", get_postgres_async_engine_result)
    /\ UNCHANGED <<gens, callers, configVars>>

Do_create_postgres_async_session_factory ==
    /\ create_postgres_async_session_factory
    /\ last' = Returned("create_postgres_async_session_factory",
                        create_postgres_async_session_factory_result.bind)
    /\ UNCHANGED <<gens, callers, configVars>>

Do_get_postgres_async_session_factory ==
    /\ get_postgres_async_session_factory
    /\ last' = Returned("get_postgres_async_session_factory",
                        get_postgres_async_session_factory_result.bind)
    /\ UNCHANGED <<gens, callers, configVars>>

-----------------------------------------------------------------------------
(* The scoped session generators.                                            *)
(*   LocalAsyncSession = cls.<create|get>_postgres_async_session_factory()   *)
(*   async with LocalAsyncSession() as db:                                   *)
(*       try:     yield db                                                   *)
(*       finally: await db.close()                                           *)
(* A generator is suspended at its yield until its consumer resumes it       *)
(* (__anext__, as `async for` does when its body ends), throws into it       *)
(* (athrow, as a context-manager wrapper does with the body's error) or      *)
(* closes it (aclose, also what the event loop's finalizer runs for a        *)
(* generator its consumer dropped).  Each await of db.close() is a step of   *)
(* its own; the database client decides whether it succeeds.                 *)

Gens == 1..Len(gens)

\* The generator object of one invocation, suspended at `yield db` (line 161/187).
Yielded(kind, factory) ==
    [kind |-> kind, pc |-> "yield", bind |-> factory.bind,
     sessions |-> 1, session |-> "open", yields |-> 1,
     body |-> "running", misused |-> FALSE, exc |-> "none",
     closes |-> 0, failed |-> 0, outcome |-> "pending"]

\* get_postgres_async_db(), run to its yield
get_postgres_async_db ==
    /\ Len(gens) < MaxGens
    /\ create_postgres_async_session_factory
    /\ gens' = Append(gens, Yielded("fresh", create_postgres_async_session_factory_result))
    /\ last' = Returned("get_postgres_async_db",
                        create_postgres_async_session_factory_result.bind)
    /\ UNCHANGED <<callers, configVars>>

\* get_postgres_async_shared_db(), run to its yield
get_postgres_async_shared_db ==
    /\ Len(gens) < MaxGens
    /\ get_postgres_async_session_factory
    /\ gens' = Append(gens, Yielded("shared", get_postgres_async_session_factory_result))
    /\ last' = Returned("get_postgres_async_shared_db",
                        get_postgres_async_session_factory_result.bind)
    /\ UNCHANGED <<callers, configVars>>

GenFrame == UNCHANGED <<postgres_engine, postgres_async_engine, engines, last,
                        syncGets, asyncGets, callers, configVars>>

\* The consumer performs an operation on the session it holds (any number of
\* times); `misused` records an operation on a session that is no longer open.
Use(g) ==
    /\ gens[g].pc = "yield" /\ gens[g].body = "running"
    /\ gens' = [gens EXCEPT ![g].misused = @ \/ gens[g].session # "open"]
    /\ GenFrame

\* The consumer's scope ends: normally, by an error, or by its cancellation.
BodyEnd(g, how) ==
    /\ gens[g].pc = "yield" /\ gens[g].body = "running"
    /\ gens' = [gens EXCEPT ![g].body = how]
    /\ GenFrame

\* A generator whose body loops: resumed, it yields a second session.
Anext_YieldsAgain(g) ==
    /\ gens[g].pc = "yield" /\ gens[g].body = "normal"
    /\ gens' = [gens EXCEPT ![g].sessions = @ + 1, ![g].yields = @ + 1,
                            ![g].body = "running"]
    /\ GenFrame

\* __anext__ on the suspended generator: execution continues after the yield
\* and enters the finally block.
Anext(g) ==
    /\ gens[g].pc = "yield" /\ gens[g].body = "normal"
    /\ gens' = [gens EXCEPT ![g].pc = "finally"]
    /\ GenFrame

\* A generator that releases after the yield without try/finally or a context
\* manager: an exception thrown in at the yield ends it at once.
Athrow_NoFinally(g) ==
    /\ gens[g].pc = "yield" /\ gens[g].body \in {"error", "cancelled"}
    /\ gens' = [gens EXCEPT ![g].pc = "done",
                            ![g].exc = IF gens[g].body = "error"
                                       THEN "body_error" ELSE "CancelledError",
                            ![g].outcome = IF gens[g].body = "error"
                                           THEN "body_error" ELSE "CancelledError"]
    /\ GenFrame

\* athrow(exc): the body's exception is raised at the yield; the try statement
\* runs its finally block with the exception pending.
Athrow(g) ==
    /\ gens[g].pc = "yield" /\ gens[g].body \in {"error", "cancelled"}
    /\ gens' = [gens EXCEPT ![g].pc = "finally",
                            ![g].exc = IF gens[g].body = "error"
                                       THEN "body_error" ELSE "CancelledError"]
    /\ GenFrame

\* aclose(): GeneratorExit is raised at the yield, whatever way the scope ended.
Aclose(g) ==
    /\ gens[g].pc = "yield" /\ gens[g].body # "running"
    /\ gens' = [gens EXCEPT ![g].pc = "finally", ![g].exc = "GeneratorExit"]
    /\ GenFrame

\* AsyncSession.close() as the generator sees it: it closes the session, or
\* raises and leaves the session as it was.
SessionAfterClose(state, ok) == IF ok THEN "closed" ELSE state

\* A finally block that swallows the failure of close (except Exception: pass).
FinallyClose_Suppressing(g, ok) ==
    /\ gens[g].pc = "finally"
    /\ gens' = [gens EXCEPT ![g].pc = "aexit",
                            ![g].closes = @ + 1,
                            ![g].failed = IF ok THEN @ ELSE @ + 1,
                            ![g].session = IF ok THEN "closed" ELSE @]
    /\ GenFrame

\* finally: await db.close()   (line 163/189); an exception it raises replaces
\* the pending one.
FinallyClose(g, ok) ==
    /\ gens[g].pc = "finally"
    /\ gens' = [gens EXCEPT ![g].pc = "aexit",
                            ![g].closes = @ + 1,
                            ![g].failed = IF ok THEN @ ELSE @ + 1,
                            ![g].session = SessionAfterClose(@, ok),
                            ![g].exc = IF ok THEN @ ELSE "close_error"]
    /\ GenFrame

\* What the caller of __anext__/athrow/aclose gets when the generator ends.
Outcome(exc) ==
    CASE exc = "none" -> "StopAsyncIteration"
      [] exc = "GeneratorExit" -> "returned"
      [] OTHER -> exc

\* The exit of `async with LocalAsyncSession() as db` (line 159/185):
\* AsyncSession.__aexit__ closes the session again and suppresses nothing.
AexitClose(g, ok) ==
    /\ gens[g].pc = "aexit"
    /\ gens' = [gens EXCEPT ![g].pc = "done",
                            ![g].closes = @ + 1,
                            ![g].failed = IF ok THEN @ ELSE @ + 1,
                            ![g].session = SessionAfterClose(@, ok),
                            ![g].exc = IF ok THEN @ ELSE "close_error",
                            ![g].outcome = Outcome(IF ok THEN gens[g].exc ELSE "close_error")]
    /\ GenFrame

\* __anext__ on the exhausted generator: StopAsyncIteration; none of its code
\* runs again.
AnextExhausted(g) ==
    /\ gens[g].pc = "done"
    /\ gens' = gens
    /\ GenFrame

-----------------------------------------------------------------------------
(* Spec: sequential calls of the SessionContainer methods.  A generator      *)
(* started here stays at its yield: its later steps (SpecScope) leave the    *)
(* class state alone.                                                        *)

NoCall == [op |-> "none", engine |-> None]

\* No ConfigContainer exists and no directory is looked at.
ConfigIdle ==
    /\ fs = <<>>
    /\ class_attrs = <<>>
    /\ attrs = <<>>
    /\ resolved = <<>>
    /\ cfgLast = <<>>

Init ==
    /\ postgres_engine = None
    /\ postgres_async_engine = None
    /\ engines = <<>>
    /\ last = NoCall
    /\ syncGets = {}
    /\ asyncGets = {}
    /\ gens = <<>>
    /\ callers = <<>>
    /\ ConfigIdle

Next ==
    \/ Do_create_postgres_engine
    \/ Do_create_postgres_async_engine
    \/ Do_get_postgres_engine
    \/ Do_get_postgres_async_engine
    \/ Do_create_postgres_async_session_factory
    \/ Do_get_postgres_async_session_factory
    \/ get_postgres_async_db
    \/ get_postgres_async_shared_db

Spec == Init /\ [][Next]_vars

-----------------------------------------------------------------------------
(* SpecScope: the scoped session generators and their consumers *)

NextScope ==
    \/ get_postgres_async_db
    \/ get_postgres_async_shared_db
    \/ \E g \in Gens : Use(g)
    \/ \E g \in Gens, how \in {"normal", "error", "cancelled"} : BodyEnd(g, how)
    \/ \E g \in Gens : Anext(g)
    \/ \E g \in Gens : Athrow(g)
    \/ \E g \in Gens : Aclose(g)
    \/ \E g \in Gens, ok \in BOOLEAN : FinallyClose(g, ok)
    \/ \E g \in Gens, ok \in BOOLEAN : AexitClose(g, ok)
    \/ \E g \in Gens : AnextExhausted(g)

SpecScope == Init /\ [][NextScope]_vars

-----------------------------------------------------------------------------
(* SpecRace: threads inside get_postgres_engine / get_postgres_async_engine. *)
(* The method is three statements' worth of steps with no lock around them:  *)
(*   the test `cls._x is None`, the call create_engine(...), the store into  *)
(*   cls._x, and `return cls._x`, which reads the slot again.                *)

Callers == 1..MaxCallers

Idle == [which |-> "none", pc |-> "idle", sawNone |-> FALSE, made |-> None,
         order |-> 0, result |-> None]

Slot(which) == IF which = "sync" THEN postgres_engine ELSE postgres_async_engine

RaceFrame == UNCHANGED <<last, syncGets, asyncGets, gens, configVars>>

\* A thread calls get_postgres_engine ("sync") or get_postgres_async_engine ("async").
Call(t, which) ==
    /\ callers[t].pc = "idle"
    /\ callers' = [callers EXCEPT ![t].which = which, ![t].pc = "test"]
    /\ UNCHANGED <<postgres_engine, postgres_async_engine, engines>>
    /\ RaceFrame

\* if cls._postgres_engine is None:   (line 86/103)
TestNone(t) ==
    /\ callers[t].pc = "test"
    /\ callers' = [callers EXCEPT
                      ![t].sawNone = (Slot(callers[t].which) = None),
                      ![t].pc = IF Slot(callers[t].which) = None THEN "create" ELSE "return"]
    /\ UNCHANGED <<postgres_engine, postgres_async_engine, engines>>
    /\ RaceFrame

\* create_engine(url=..., echo=False) / create_async_engine(..., echo=True), the
\* right-hand side of the assignment   (line 87-89/104-106)
CreateEngine(t) ==
    /\ callers[t].pc = "create"
    /\ engines' = Append(engines,
                         IF callers[t].which = "sync"
                         THEN create_engine(postgres_connection, FALSE)
                         ELSE create_async_engine(postgres_connection, TRUE))
    /\ callers' = [callers EXCEPT ![t].made = NewId, ![t].pc = "store"]
    /\ UNCHANGED <<postgres_engine, postgres_async_engine>>
    /\ RaceFrame

Stored(which) == {u \in Callers : callers[u].which = which /\ callers[u].order > 0}

\* The slot after a store that first tests it again (a double-checked store).
StoreValue_IfStillNone(slot, made) == IF slot = None THEN made ELSE slot

\* The slot after `cls._postgres_engine = <the engine made>`: overwritten.
StoreValue(slot, made) == made

\* cls._postgres_engine = ...   the store of the assignment
Store(t) ==
    /\ callers[t].pc = "store"
    /\ IF callers[t].which = "sync"
       THEN /\ postgres_engine' = StoreValue(postgres_engine, callers[t].made)
            /\ UNCHANGED postgres_async_engine
       ELSE /\ postgres_async_engine' = StoreValue(postgres_async_engine, callers[t].made)
            /\ UNCHANGED postgres_engine
    /\ callers' = [callers EXCEPT ![t].pc = "return",
                                  ![t].order = Cardinality(Stored(callers[t].which)) + 1]
    /\ UNCHANGED engines
    /\ RaceFrame

\* return cls._postgres_engine   (line 90/107)
Return(t) ==
    /\ callers[t].pc = "return"
    /\ callers' = [callers EXCEPT ![t].pc = "done", ![t].result = Slot(callers[t].which)]
    /\ UNCHANGED <<postgres_engine, postgres_async_engine, engines>>
    /\ RaceFrame

InitRace ==
    /\ postgres_engine = None
    /\ postgres_async_engine = None
    /\ engines = <<>>
    /\ last = NoCall
    /\ syncGets = {}
    /\ asyncGets = {}
    /\ gens = <<>>
    /\ callers = [t \in Callers |-> Idle]
    /\ ConfigIdle

NextRace ==
    \/ \E t \in Callers, which \in {"sync", "async"} : Call(t, which)
    \/ \E t \in Callers : TestNone(t)
    \/ \E t \in Callers : CreateEngine(t)
    \/ \E t \in Callers : Store(t)
    \/ \E t \in Callers : Return(t)

SpecRace == InitRace /\ [][NextRace]_vars

-----------------------------------------------------------------------------
(* ConfigContainer.  Its collaborators are not part of containers/:          *)
(* ConfigHandler.create_file_dict and ConfigHandler.create_config, and the   *)
(* declarations in constants/ (directory, imports, script).                  *)

\* constants.directory: the default directories of the two getters.
directory_IMPORT == "IMPORT"
directory_SCRIPTS == "SCRIPTS"

Dirs == {directory_IMPORT, directory_SCRIPTS}

\* constants.imports: the declared logical names of each import category.
imports_BHCF == <<"bhcf_2023", "bhcf_2024">>
imports_ATTRIBUTES == <<"attributes">>
imports_RELATIONSHIPS == <<"relationships">>
imports_TRANSFORMATIONS == <<"transformations">>
imports_GOV_IDENTIFIERS == <<"gov_identifiers">>

\* constants.script: the declared logical names of each script category.
script_PREFLIGHT == <<"preflight_sql">>
script_DEPENDENCIES == <<"dependencies_sql">>
script_ATTRIBUTES == <<"attributes_sql">>
script_RELATIONSHIPS == <<"relationships_sql">>
script_TRANSFORMATIONS == <<"transformations_sql", "transformations_post_sql">>
script_GOV_IDENTIFIERS == <<"gov_identifiers_sql">>
script_CALL_REPORTS == <<"call_reports_sql">>

Range(seq) == {seq[k] : k \in 1..Len(seq)}

ImportNames == Range(imports_BHCF) \cup Range(imports_ATTRIBUTES)
               \cup Range(imports_RELATIONSHIPS) \cup Range(imports_TRANSFORMATIONS)
               \cup Range(imports_GOV_IDENTIFIERS)

ScriptNames == Range(script_PREFLIGHT) \cup Range(script_DEPENDENCIES)
               \cup Range(script_ATTRIBUTES) \cup Range(script_RELATIONSHIPS)
               \cup Range(script_TRANSFORMATIONS) \cup Range(script_GOV_IDENTIFIERS)
               \cup Range(script_CALL_REPORTS)

\* The directories the model is run over: complete, or lacking the second
\* declared name of an import category or the first of a script category.
AbsentChoices == {{}, {"bhcf_2024"}, {"transformations_sql"}}

\* The files a directory holds when the names in `absent` are missing.
Files(directory, absent) ==
    (IF directory = directory_IMPORT THEN ImportNames ELSE ScriptNames) \ absent

\* ConfigHandler.create_file_dict(directory): logical file name -> file path.
create_file_dict(directory) == [n \in fs[directory] |-> <<directory, n>>]

\* What a call returns or raises: the dict a getter returns or an accessor
\* looked names up in, and the list an accessor returns.
Result(raised, dict, list) == [raised |-> raised, dict |-> dict, list |-> list]

\* Python's None where a dict may stand.
NoneDict == [none |-> TRUE, id |-> <<>>, map |-> <<>>]

\* ConfigHandler.create_config(configs, file_dict): one resolved entry per
\* declared name, in declaration order; file_dict[name] raises KeyError for a
\* name the mapping lacks.
create_config(configs, file_dict) ==
    IF \E k \in 1..Len(configs) : configs[k] \notin DOMAIN file_dict.map
    THEN Result("KeyError", file_dict, <<>>)
    ELSE Result("none", file_dict,
                [k \in 1..Len(configs) |->
                    [name |-> configs[k], path |-> file_dict.map[configs[k]]]])

Containers == 1..Len(attrs)

CacheAttrs == {"_import_file_dict", "_script_file_dict"}

\* Attribute lookup on an instance: its __dict__ first, then the class.
GetAttrIn(instances, class, i, name) ==
    IF name \in DOMAIN instances[i] THEN instances[i][name] ELSE class[name]

GetAttr(i, name) == GetAttrIn(attrs, class_attrs, i, name)

\* An assignment that lands on the class: ConfigContainer._x = value.
SetAttr_OnClass(i, name, value) ==
    /\ class_attrs' = [class_attrs EXCEPT ![name] = value]
    /\ UNCHANGED attrs

\* self._x = value: the assignment creates or replaces the instance attribute.
SetAttr(i, name, value) ==
    /\ attrs' = [attrs EXCEPT ![i] = (name :> value) @@ attrs[i]]
    /\ UNCHANGED class_attrs

\* The dict object one create_file_dict call returns: a new object each time.
NewDict(i, name, directory) ==
    [none |-> FALSE, id |-> <<i, name, Len(resolved[i][name]) + 1>>,
     map |-> create_file_dict(directory)]

Resolve(i, name, directory) ==
    /\ SetAttr(i, name, NewDict(i, name, directory))
    /\ resolved' = [resolved EXCEPT ![i][name] = Append(@, directory)]

ConfigFrame == UNCHANGED <<fs, postgres_engine, postgres_async_engine, engines, last,
                           syncGets, asyncGets, gens, callers>>

\* ConfigContainer(config_handler): __init__ stores the handler and nothing else.
NewContainer ==
    /\ Len(attrs) < MaxContainers
    /\ attrs' = Append(attrs, [a \in {"_config_handler"} |-> "ConfigHandler"])
    /\ resolved' = Append(resolved, [a \in CacheAttrs |-> <<>>])
    /\ UNCHANGED <<class_attrs, cfgLast>>
    /\ ConfigFrame

\* A getter that resolves the directory on every call.
get_import_file_dict_NoCache(i, directory) ==
    /\ Len(resolved[i]["_import_file_dict"]) < 2
    /\ Resolve(i, "_import_file_dict", directory)

\* get_import_file_dict(directory): resolve when self._import_file_dict is None
get_import_file_dict(i, directory) ==
    IF GetAttr(i, "_import_file_dict").none
    THEN Resolve(i, "_import_file_dict", directory)
    ELSE UNCHANGED <<attrs, class_attrs, resolved>>

get_import_file_dict_result(i) == GetAttrIn(attrs', class_attrs', i, "_import_file_dict")

\* get_script_file_dict(directory), the same over self._script_file_dict
get_script_file_dict(i, directory) ==
    IF GetAttr(i, "_script_file_dict").none
    THEN Resolve(i, "_script_file_dict", directory)
    ELSE UNCHANGED <<attrs, class_attrs, resolved>>

get_script_file_dict_result(i) == GetAttrIn(attrs', class_attrs', i, "_script_file_dict")

Called(i, op, directory, ret) == [inst |-> i, op |-> op, dir |-> directory, ret |-> ret]

Do_get_import_file_dict(i, directory) ==
    /\ get_import_file_dict(i, directory)
    /\ cfgLast' = Called(i, "get_import_file_dict", directory,
                         Result("none", get_import_file_dict_result(i), <<>>))
    /\ ConfigFrame

Do_get_script_file_dict(i, directory) ==
    /\ get_script_file_dict(i, directory)
    /\ cfgLast' = Called(i, "get_script_file_dict", directory,
                         Result("none", get_script_file_dict_result(i), <<>>))
    /\ ConfigFrame

\* An import accessor: create_config(configs=..., file_dict=self.get_import_file_dict())
ImportAccessor(i, op, configs) ==
    /\ get_import_file_dict(i, directory_IMPORT)
    /\ cfgLast' = Called(i, op, directory_IMPORT,
                         create_config(configs, get_import_file_dict_result(i)))
    /\ ConfigFrame

\* A script accessor: create_config(configs=..., file_dict=self.get_script_file_dict())
ScriptAccessor(i, op, configs) ==
    /\ get_script_file_dict(i, directory_SCRIPTS)
    /\ cfgLast' = Called(i, op, directory_SCRIPTS,
                         create_config(configs, get_script_file_dict_result(i)))
    /\ ConfigFrame

\* A bhcf_imports that looks the names up in the script mapping.
bhcf_imports_FromScripts(i) == ScriptAccessor(i, "bhcf_imports", imports_BHCF)

\* A bhcf_imports that catches the lookup error and returns an empty list.
bhcf_imports_Swallowing(i) ==
    /\ get_import_file_dict(i, directory_IMPORT)
    /\ cfgLast' = Called(i, "bhcf_imports", directory_IMPORT,
                         LET r == create_config(imports_BHCF, get_import_file_dict_result(i))
                         IN  IF r.raised = "KeyError" THEN Result("none", r.dict, <<>>) ELSE r)
    /\ ConfigFrame

bhcf_imports(i) == ImportAccessor(i, "bhcf_imports", imports_BHCF)

attribute_imports(i) == ImportAccessor(i, "attribute_imports", imports_ATTRIBUTES)

relationship_imports(i) == ImportAccessor(i, "relationship_imports", imports_RELATIONSHIPS)

transformation_imports(i) ==
    ImportAccessor(i, "transformation_imports", imports_TRANSFORMATIONS)

gov_identifier_imports(i) ==
    ImportAccessor(i, "gov_identifier_imports", imports_GOV_IDENTIFIERS)

preflight_scripts(i) == ScriptAccessor(i, "preflight_scripts", script_PREFLIGHT)

dependency_scripts(i) == ScriptAccessor(i, "dependency_scripts", script_DEPENDENCIES)

attribute_scripts(i) == ScriptAccessor(i, "attribute_scripts", script_ATTRIBUTES)

relationship_scripts(i) == ScriptAccessor(i, "relationship_scripts", script_RELATIONSHIPS)

transformation_scripts(i) ==
    ScriptAccessor(i, "transformation_scripts", script_TRANSFORMATIONS)

gov_identifier_scripts(i) ==
    ScriptAccessor(i, "gov_identifier_scripts", script_GOV_IDENTIFIERS)

call_report_scripts(i) == ScriptAccessor(i, "call_report_scripts", script_CALL_REPORTS)

NoConfigCall == Called(0, "none", "", Result("none", NoneDict, <<>>))

InitConfig ==
    /\ postgres_engine = None
    /\ postgres_async_engine = None
    /\ engines = <<>>
    /\ last = NoCall
    /\ syncGets = {}
    /\ asyncGets = {}
    /\ gens = <<>>
    /\ callers = <<>>
    /\ \E absent \in AbsentChoices : fs = [d \in Dirs |-> Files(d, absent)]
    /\ class_attrs = [a \in CacheAttrs |-> NoneDict]
    /\ attrs = <<>>
    /\ resolved = <<>>
    /\ cfgLast = NoConfigCall

NextConfig ==
    \/ NewContainer
    \/ \E i \in Containers, d \in Dirs : Do_get_import_file_dict(i, d)
    \/ \E i \in Containers, d \in Dirs : Do_get_script_file_dict(i, d)
    \/ \E i \in Containers : bhcf_imports(i)
    \/ \E i \in Containers : attribute_imports(i)
    \/ \E i \in Containers : relationship_imports(i)
    \/ \E i \in Containers : transformation_imports(i)
    \/ \E i \in Containers : gov_identifier_imports(i)
    \/ \E i \in Containers : preflight_scripts(i)
    \/ \E i \in Containers : dependency_scripts(i)
    \/ \E i \in Containers : attribute_scripts(i)
    \/ \E i \in Containers : relationship_scripts(i)
    \/ \E i \in Containers : transformation_scripts(i)
    \/ \E i \in Containers : gov_identifier_scripts(i)
    \/ \E i \in Containers : call_report_scripts(i)

SpecConfig == InitConfig /\ [][NextConfig]_vars

-----------------------------------------------------------------------------
(* Properties of the scoped session generators (SpecScope) *)

C2_YieldsOnce ==
    \A g \in Gens :
        /\ gens[g].sessions = 1
        /\ gens[g].yields = 1
        /\ gens[g].pc \in {"yield", "finally", "aexit", "done"}
        /\ gens[g].pc = "yield" => gens[g].closes = 0 /\ gens[g].outcome = "pending"
        /\ gens[g].pc = "done" =>
              gens[g].outcome \in {"StopAsyncIteration", "returned", "body_error",
                                   "CancelledError", "close_error"}

\* Both kinds of generator were resumed by __anext__ after their one yield and
\* ended with StopAsyncIteration.
C2_Witness ==
    \E g, h \in Gens :
        /\ gens[g].kind = "fresh" /\ gens[h].kind = "shared"
        /\ gens[g].pc = "done" /\ gens[g].outcome = "StopAsyncIteration"
        /\ gens[h].pc = "done" /\ gens[h].outcome = "StopAsyncIteration"
        /\ gens[g].yields = 1 /\ gens[h].yields = 1

\* C10: once a scoped generator has left its finally block, close has been
\* attempted, whatever way the consumer's scope ended; and when a close attempt
\* raised, the caller of the generator gets the close failure, also when the
\* body had raised an error of its own.
C10_CloseFailurePropagates ==
    \A g \in Gens :
        /\ gens[g].pc \in {"aexit", "done"} => gens[g].closes >= 1
        /\ gens[g].pc = "done" => gens[g].closes = 2
        /\ (gens[g].pc = "done" /\ gens[g].failed > 0) => gens[g].outcome = "close_error"
        /\ (gens[g].pc = "done" /\ gens[g].failed = 0) =>
              /\ gens[g].outcome = Outcome(gens[g].exc)
              /\ gens[g].outcome # "close_error"

\* The body raised, the close in the finally block raised too, and the caller
\* was given the close failure instead of the body's error.
C10_Witness ==
    \E g \in Gens :
        /\ gens[g].pc = "done"
        /\ gens[g].body = "error"
        /\ gens[g].failed = 1 /\ gens[g].session = "closed"
        /\ gens[g].outcome = "close_error"

-----------------------------------------------------------------------------
(* Properties of the engine accessors (Spec) *)

AsyncSingletonOps == {"get_postgres_async_engine", "get_postgres_async_session_factory",
                      "get_postgres_async_shared_db"}

\* C3: in sequential use every get_postgres_engine call has returned one and
\* the same instance, the one in the slot, and likewise every
\* get_postgres_async_engine call (also those made by the shared factory and
\* the shared generator): a slot is filled by the first get_* call for it and
\* by nothing else, and once filled it is never emptied or replaced.
C3_SingletonStable ==
    /\ Cardinality(syncGets) <= 1
    /\ Cardinality(asyncGets) <= 1
    /\ syncGets # {} => syncGets = {postgres_engine} /\ postgres_engine # None
    /\ asyncGets # {} => asyncGets = {postgres_async_engine} /\ postgres_async_engine # None
    /\ postgres_engine # None => syncGets # {}
    /\ postgres_async_engine # None => asyncGets # {}
    /\ last.op = "get_postgres_engine" => last.engine = postgres_engine
    /\ last.op \in AsyncSingletonOps => last.engine = postgres_async_engine
    /\ postgres_engine # None => engines[postgres_engine].kind = "Engine"
    /\ postgres_async_engine # None => engines[postgres_async_engine].kind = "AsyncEngine"

\* Both slots were filled by the first two constructions, later constructions
\* followed, and a get_postgres_engine call made after them returned the first
\* engine again while the shared path had used the async singleton.
C3_Witness ==
    /\ postgres_engine = 1
    /\ postgres_async_engine = 2
    /\ Len(engines) = MaxEngines
    /\ last = Returned("get_postgres_engine", 1)
    /\ \E g \in Gens : gens[g].kind = "shared" /\ gens[g].bind = 2

CreateOps == {"create_postgres_engine", "create_postgres_async_engine",
              "create_postgres_async_session_factory", "get_postgres_async_db"}

\* C4: a step that is a call of create_postgres_engine,
\* create_postgres_async_engine, create_postgres_async_session_factory or
\* get_postgres_async_db constructs exactly one engine, returns (or binds to)
\* an instance that differs from every engine constructed before and from both
\* singletons, and leaves both singleton slots as they were.
C4_CreateIsFresh ==
    [][(last' # last /\ last'.op \in CreateOps) =>
          /\ postgres_engine' = postgres_engine
          /\ postgres_async_engine' = postgres_async_engine
          /\ Len(engines') = Len(engines) + 1
          /\ last'.engine \notin 1..Len(engines)
          /\ last'.engine \notin {postgres_engine', postgres_async_engine'}
          /\ last'.engine = Len(engines')]_vars

\* Every engine of the run was made by a create_* call, the last one by
\* create_postgres_engine, and both singleton slots are still uninitialized.
C4_Witness ==
    /\ Len(engines) = MaxEngines
    /\ last = Returned("create_postgres_engine", MaxEngines)
    /\ postgres_engine = None
    /\ postgres_async_engine = None
    /\ \E g \in Gens : gens[g].kind = "fresh"

-----------------------------------------------------------------------------
(* Properties of the unsynchronized first creation (SpecRace) *)

LastStored(which) ==
    CHOOSE t \in Stored(which) : \A u \in Stored(which) : callers[u].order <= callers[t].order

\* C9: nothing makes test-and-set atomic.  Every caller that found the slot
\* None constructs an engine of its own, so the engines made for a slot are as
\* many as the callers that passed the test; the slot holds the engine stored
\* last, every engine stored before it is gone from the slot, and a caller
\* returns whatever the slot held when it read it back.
C9_RaceOutcome ==
    \A which \in {"sync", "async"} :
        /\ \A t, u \in Stored(which) : t # u => callers[t].made # callers[u].made
        /\ Stored(which) # {} =>
              /\ Slot(which) = callers[LastStored(which)].made
              /\ \A t \in Stored(which) \ {LastStored(which)} : callers[t].made # Slot(which)
        /\ \A t \in Callers :
              (callers[t].which = which /\ callers[t].pc = "done") =>
                  callers[t].result \in {callers[u].made : u \in Stored(which)}

\* Two callers of get_postgres_engine both passed the None test, two engines
\* exist, the callers were handed different instances, and the slot holds only
\* the engine written later.
C9_Witness ==
    \E t, u \in Callers :
        /\ t # u
        /\ callers[t].which = "sync" /\ callers[u].which = "sync"
        /\ callers[t].sawNone /\ callers[u].sawNone
        /\ callers[t].pc = "done" /\ callers[u].pc = "done"
        /\ callers[t].result # callers[u].result
        /\ callers[t].order < callers[u].order
        /\ postgres_engine = callers[u].made
        /\ postgres_engine # callers[t].result
        /\ Len(engines) >= 2

-----------------------------------------------------------------------------
(* Properties of ConfigContainer (SpecConfig) *)

\* The mapping the file-resolution collaborator gives for a directory.
MappingOf(directory) == [n \in fs[directory] |-> <<directory, n>>]

\* C5: on one instance the collaborator is invoked at most once for the import
\* mapping and at most once for the script mapping, each cache holds the one
\* object made from the directory of its own first call, and a getter returns
\* that very object whatever directory the call names.
C5_ResolvedOnce ==
    /\ \A i \in Containers, a \in CacheAttrs :
          /\ Len(resolved[i][a]) <= 1
          /\ Len(resolved[i][a]) = 0 => GetAttr(i, a).none
          /\ Len(resolved[i][a]) = 1 =>
                GetAttr(i, a) = [none |-> FALSE, id |-> <<i, a, 1>>,
                                 map |-> MappingOf(resolved[i][a][1])]
    /\ cfgLast.op = "get_import_file_dict" =>
          /\ cfgLast.ret.raised = "none"
          /\ ~cfgLast.ret.dict.none
          /\ cfgLast.ret.dict = GetAttr(cfgLast.inst, "_import_file_dict")
    /\ cfgLast.op = "get_script_file_dict" =>
          /\ cfgLast.ret.raised = "none"
          /\ ~cfgLast.ret.dict.none
          /\ cfgLast.ret.dict = GetAttr(cfgLast.inst, "_script_file_dict")

\* A later get_import_file_dict call names the scripts directory and still gets
\* the mapping of the import directory resolved by the first call, while the
\* same instance has not resolved its script mapping.
C5_Witness ==
    /\ cfgLast.op = "get_import_file_dict"
    /\ cfgLast.dir = directory_SCRIPTS
    /\ resolved[cfgLast.inst]["_import_file_dict"] = <<directory_IMPORT>>
    /\ cfgLast.ret.dict.map = MappingOf(directory_IMPORT)
    /\ cfgLast.ret.dict.map # MappingOf(directory_SCRIPTS)
    /\ resolved[cfgLast.inst]["_script_file_dict"] = <<>>

\* C6: the class attributes stay None; a mapping an instance sees as cached is
\* one that instance resolved itself and holds in its own __dict__, and an
\* instance that has resolved nothing sees None.
C6_InstanceScoped ==
    /\ class_attrs = [a \in CacheAttrs |-> NoneDict]
    /\ \A i \in Containers, a \in CacheAttrs :
          /\ a \in DOMAIN attrs[i] <=> Len(resolved[i][a]) >= 1
          /\ ~GetAttr(i, a).none =>
                /\ a \in DOMAIN attrs[i]
                /\ GetAttr(i, a).id[1] = i
                /\ Len(resolved[i][a]) >= 1

\* Two instances: one has the import directory cached as its import mapping,
\* the other resolved the scripts directory for it, and a cache one of them
\* filled is still None on the other.
C6_Witness ==
    \E i, j \in Containers :
        /\ i # j
        /\ ~GetAttr(i, "_import_file_dict").none
        /\ ~GetAttr(j, "_import_file_dict").none
        /\ GetAttr(i, "_import_file_dict").map = MappingOf(directory_IMPORT)
        /\ GetAttr(j, "_import_file_dict").map = MappingOf(directory_SCRIPTS)
        /\ ~GetAttr(i, "_script_file_dict").none
        /\ GetAttr(j, "_script_file_dict").none

ImportAccessors == {"bhcf_imports", "attribute_imports", "relationship_imports",
                    "transformation_imports", "gov_identifier_imports"}

ScriptAccessors == {"preflight_scripts", "dependency_scripts", "attribute_scripts",
                    "relationship_scripts", "transformation_scripts",
                    "gov_identifier_scripts", "call_report_scripts"}

\* The declaration each accessor names in config.py.
Declared(op) ==
    CASE op = "bhcf_imports" -> imports_BHCF
      [] op = "attribute_imports" -> imports_ATTRIBUTES
      [] op = "relationship_imports" -> imports_RELATIONSHIPS
      [] op = "transformation_imports" -> imports_TRANSFORMATIONS
      [] op = "gov_identifier_imports" -> imports_GOV_IDENTIFIERS
      [] op = "preflight_scripts" -> script_PREFLIGHT
      [] op = "dependency_scripts" -> script_DEPENDENCIES
      [] op = "attribute_scripts" -> script_ATTRIBUTES
      [] op = "relationship_scripts" -> script_RELATIONSHIPS
      [] op = "transformation_scripts" -> script_TRANSFORMATIONS
      [] op = "gov_identifier_scripts" -> script_GOV_IDENTIFIERS
      [] op = "call_report_scripts" -> script_CALL_REPORTS

\* The cached mapping the last accessor call has to resolve against.
CacheFor(call) ==
    GetAttr(call.inst, IF call.op \in ImportAccessors
                       THEN "_import_file_dict" ELSE "_script_file_dict")

AllPresent(call) ==
    \A k \in 1..Len(Declared(call.op)) : Declared(call.op)[k] \in DOMAIN CacheFor(call).map

\* C7: an accessor looks its names up in the cached mapping of its own kind
\* (import accessors the import mapping, script accessors the script mapping),
\* and when every declared name is in that mapping it returns one entry per
\* declared name, in declaration order, with the mapping's path for the name.
C7_AccessorComplete ==
    cfgLast.op \in ImportAccessors \cup ScriptAccessors =>
        /\ ~CacheFor(cfgLast).none
        /\ cfgLast.ret.dict = CacheFor(cfgLast)
        /\ AllPresent(cfgLast) =>
              /\ cfgLast.ret.raised = "none"
              /\ Len(cfgLast.ret.list) = Len(Declared(cfgLast.op))
              /\ \A k \in 1..Len(Declared(cfgLast.op)) :
                    cfgLast.ret.list[k] =
                        [name |-> Declared(cfgLast.op)[k],
                         path |-> CacheFor(cfgLast).map[Declared(cfgLast.op)[k]]]

\* bhcf_imports returned its two entries, in declaration order, with the paths
\* of the import directory.
C7_Witness ==
    /\ cfgLast.op = "bhcf_imports"
    /\ cfgLast.ret.list = <<[name |-> "bhcf_2023", path |-> <<"IMPORT", "bhcf_2023">>],
                            [name |-> "bhcf_2024", path |-> <<"IMPORT", "bhcf_2024">>]>>

\* C8: when a declared name of the category is missing from the cached mapping
\* the accessor raises KeyError and returns no list; a list it returns is never
\* shorter than the declaration.
C8_MissingRaises ==
    cfgLast.op \in ImportAccessors \cup ScriptAccessors =>
        /\ ~AllPresent(cfgLast) =>
              /\ cfgLast.ret.raised = "KeyError"
              /\ cfgLast.ret.list = <<>>
        /\ cfgLast.ret.raised = "none" =>
              Len(cfgLast.ret.list) = Len(Declared(cfgLast.op))

\* bhcf_imports raised KeyError over a mapping that has the first declared
\* name and lacks the second.
C8_Witness ==
    /\ cfgLast.op = "bhcf_imports"
    /\ cfgLast.ret.raised = "KeyError"
    /\ "bhcf_2023" \in DOMAIN CacheFor(cfgLast).map
    /\ "bhcf_2024" \notin DOMAIN CacheFor(cfgLast).map

====
